---- MODULE Spec2Model ----
(***************************************************************************)
(* Model of CurtsDDNS: the public-address resolver and the Cloudflare      *)
(* record syncer of cloudflare_module.py, driven by the polling loop of    *)
(* curtsddns.py.                                                           *)
(*                                                                         *)
(* Python strings are sequences of one-character strings, so that          *)
(* splitting, stripping and parsing are computed the way the code and the  *)
(* ipaddress library compute them.  An IPv4 address is the tuple of its    *)
(* four octets (its 32-bit value, most significant octet first); a network *)
(* is a record of its network address and prefix length.                   *)
(***************************************************************************)
EXTENDS Integers, Sequences, FiniteSets, TLC

\* ------------------------------------------------------------------------
\* Strings
\* ------------------------------------------------------------------------

Whitespace == {" ", "\n", "\t", "\r"}

DigitChars == {"0", "1", "2", "3", "4", "5", "6", "7", "8", "9"}

DigitValue(c) ==
  CASE c = "0" -> 0 [] c = "1" -> 1 [] c = "2" -> 2 [] c = "3" -> 3
    [] c = "4" -> 4 [] c = "5" -> 5 [] c = "6" -> 6 [] c = "7" -> 7
    [] c = "8" -> 8 [] c = "9" -> 9

\* str.isascii() and str.isdigit(): non-empty, decimal digits only.
IsDigits(s) == Len(s) > 0 /\ \A i \in 1..Len(s) : s[i] \in DigitChars

\* int(s, 10) of a string of decimal digits.
RECURSIVE IntOf(_)
IntOf(s) ==
  IF Len(s) = 0 THEN 0
  ELSE 10 * IntOf(SubSeq(s, 1, Len(s) - 1)) + DigitValue(s[Len(s)])

\* c in s
Contains(s, c) == \E i \in 1..Len(s) : s[i] = c

\* s.split(sep) with a one-character separator: empty fields are kept.
RECURSIVE SplitOn(_, _)
SplitOn(s, sep) ==
  IF ~Contains(s, sep) THEN <<s>>
  ELSE LET i == CHOOSE k \in 1..Len(s) :
                  s[k] = sep /\ \A j \in 1..(k - 1) : s[j] # sep
       IN  <<SubSeq(s, 1, i - 1)>> \o SplitOn(SubSeq(s, i + 1, Len(s)), sep)

\* s.strip(): leading and trailing whitespace removed.
RECURSIVE Strip(_)
Strip(s) ==
  IF Len(s) = 0 THEN s
  ELSE IF s[1] \in Whitespace THEN Strip(Tail(s))
  ELSE IF s[Len(s)] \in Whitespace THEN Strip(SubSeq(s, 1, Len(s) - 1))
  ELSE s

\* s.split(): the maximal runs of non-whitespace characters, in order.
RECURSIVE SplitWhitespace(_)
SplitWhitespace(s) ==
  IF Len(s) = 0 THEN <<>>
  ELSE IF s[1] \in Whitespace THEN SplitWhitespace(Tail(s))
  ELSE LET stops == {k \in 1..Len(s) : s[k] \in Whitespace}
           n     == IF stops = {} THEN Len(s) + 1
                    ELSE CHOOSE k \in stops : \A j \in stops : k <= j
       IN  <<SubSeq(s, 1, n - 1)>> \o SplitWhitespace(SubSeq(s, n, Len(s)))

\* ------------------------------------------------------------------------
\* The ipaddress library, as the code uses it
\* ------------------------------------------------------------------------

\* The value standing for "no address": the constructor raised.
NoAddress == <<>>

\* _parse_octet: a decimal octet in 0..255, at most three characters, no
\* leading zero; -1 stands for the ValueError.
ParseOctet(s) ==
  IF ~IsDigits(s) THEN -1
  ELSE IF Len(s) > 3 THEN -1
  ELSE IF s # <<"0">> /\ s[1] = "0" THEN -1
  ELSE IF IntOf(s) > 255 THEN -1
  ELSE IntOf(s)

\* ipaddress.IPv4Address(ip_str): the four octets, or NoAddress when the
\* constructor raises AddressValueError.
IPv4Address(ip_str) ==
  IF Contains(ip_str, "/") THEN NoAddress
  ELSE IF Len(ip_str) = 0 THEN NoAddress
  ELSE LET octets == SplitOn(ip_str, ".")
       IN  IF Len(octets) # 4 THEN NoAddress
           ELSE IF \E i \in 1..4 : ParseOctet(octets[i]) < 0 THEN NoAddress
           ELSE [i \in 1..4 |-> ParseOctet(octets[i])]

\* How many of the prefix's bits fall in octet i (1..4).
PrefixBits(prefix, i) ==
  LET k == prefix - 8 * (i - 1)
  IN  IF k < 0 THEN 0 ELSE IF k > 8 THEN 8 ELSE k

\* octet & (the netmask's octet i)
MaskOctet(octet, prefix, i) ==
  octet - (octet % (2 ^ (8 - PrefixBits(prefix, i))))

\* ip & netmask
MaskAddress(ip, prefix) == [i \in 1..4 |-> MaskOctet(ip[i], prefix, i)]

NoNetwork == [addr |-> NoAddress, prefix |-> -1]

\* _prefix_from_prefix_string: decimal digits, 0..32; -1 stands for the
\* NetmaskValueError.  (The dotted-quad mask form that _make_netmask tries
\* next is left out: a mask that is not a decimal number is an error here.)
PrefixFromString(s) ==
  IF ~IsDigits(s) THEN -1
  ELSE IF Len(s) > 3 THEN -1
  ELSE IF IntOf(s) > 32 THEN -1
  ELSE IntOf(s)

\* ipaddress.IPv4Network(cidr), strict: NoNetwork when it raises ValueError
\* (a bad address, a bad mask, or host bits set).
IPv4Network(cidr) ==
  LET parts == SplitOn(cidr, "/")
  IN  IF Len(parts) > 2 THEN NoNetwork
      ELSE LET addr   == IPv4Address(parts[1])
               prefix == IF Len(parts) = 2 THEN PrefixFromString(parts[2])
                         ELSE 32
           IN  IF addr = NoAddress THEN NoNetwork
               ELSE IF prefix < 0 THEN NoNetwork
               ELSE IF MaskAddress(addr, prefix) # addr THEN NoNetwork
               ELSE [addr |-> addr, prefix |-> prefix]

\* ip in network: other._ip & self.netmask._ip == self.network_address._ip
InNetwork(ip, network) == MaskAddress(ip, network.prefix) = network.addr

\* _IPv4Constants._private_networks
PrivateNetworks ==
  { [addr |-> <<0, 0, 0, 0>>,         prefix |-> 8],
    [addr |-> <<10, 0, 0, 0>>,        prefix |-> 8],
    [addr |-> <<127, 0, 0, 0>>,       prefix |-> 8],
    [addr |-> <<169, 254, 0, 0>>,     prefix |-> 16],
    [addr |-> <<172, 16, 0, 0>>,      prefix |-> 12],
    [addr |-> <<192, 0, 0, 0>>,       prefix |-> 29],
    [addr |-> <<192, 0, 0, 170>>,     prefix |-> 31],
    [addr |-> <<192, 0, 2, 0>>,       prefix |-> 24],
    [addr |-> <<192, 168, 0, 0>>,     prefix |-> 16],
    [addr |-> <<198, 18, 0, 0>>,      prefix |-> 15],
    [addr |-> <<198, 51, 100, 0>>,    prefix |-> 24],
    [addr |-> <<203, 0, 113, 0>>,     prefix |-> 24],
    [addr |-> <<240, 0, 0, 0>>,       prefix |-> 4],
    [addr |-> <<255, 255, 255, 255>>, prefix |-> 32] }

\* _IPv4Constants._public_network: the shared address space 100.64.0.0/10
SharedNetwork == [addr |-> <<100, 64, 0, 0>>, prefix |-> 10]

\* IPv4Address.is_private
is_private(ip) == \E net \in PrivateNetworks : InNetwork(ip, net)

\* IPv4Address.is_global
is_global(ip) == ~InNetwork(ip, SharedNetwork) /\ ~is_private(ip)

\* ------------------------------------------------------------------------
\* Strings the environment can send, and the addresses they spell
\* ------------------------------------------------------------------------

S_HOST_A       == <<"9", "3", ".", "1", "8", "4", ".", "2", "1", "6", ".", "3", "4">>
S_HOST_B       == <<"8", ".", "8", ".", "8", ".", "8">>
S_HOST_A_NL    == <<"9", "3", ".", "1", "8", "4", ".", "2", "1", "6", ".", "3", "4", "\n">>
S_HOST_B_EXTRA == <<" ", "8", ".", "8", ".", "8", ".", "8", " ", "o", "k">>
S_EDGE         == <<"1", "7", "3", ".", "2", "4", "5", ".", "4", "8", ".", "1">>
S_NEW_EDGE     == <<"4", "5", ".", "6", "0", ".", "1", ".", "1">>
S_RESOLVER_1   == <<"1", ".", "1", ".", "1", ".", "1">>
S_RESOLVER_2   == <<"1", ".", "0", ".", "0", ".", "1">>
S_PRIVATE      == <<"1", "0", ".", "0", ".", "0", ".", "5">>
S_LOOPBACK     == <<"1", "2", "7", ".", "0", ".", "0", ".", "1">>
S_LINK_LOCAL   == <<"1", "6", "9", ".", "2", "5", "4", ".", "1", ".", "1">>
S_RESERVED     == <<"2", "4", "0", ".", "0", ".", "0", ".", "1">>
S_SHARED       == <<"1", "0", "0", ".", "6", "4", ".", "0", ".", "1">>
S_HTML         == <<"<", "h", "t", "m", "l", ">">>
S_THREE        == <<"1", ".", "2", ".", "3">>
S_BIG_OCTET    == <<"2", "5", "6", ".", "1", ".", "1", ".", "1">>
S_LEAD_ZERO    == <<"0", "1", ".", "2", ".", "3", ".", "4">>
S_SLASH        == <<"8", ".", "8", ".", "8", ".", "8", "/", "3", "2">>
S_EMPTY        == <<>>
S_BLANK        == <<" ", "\n">>

\* Strings a candidate can be: the host's address, an edge address of the
\* static list, an edge address only a live list knows, the two resolver
\* addresses, special-use addresses, and strings that are no IPv4 address.
CandidateStrings ==
  { S_HOST_A, S_HOST_B, S_EDGE, S_NEW_EDGE, S_RESOLVER_1, S_RESOLVER_2,
    S_PRIVATE, S_LOOPBACK, S_LINK_LOCAL, S_RESERVED, S_SHARED, S_HTML,
    S_THREE, S_BIG_OCTET, S_LEAD_ZERO, S_SLASH, S_EMPTY, S_HOST_A_NL,
    S_HOST_B_EXTRA }

\* Bodies an IP-echo endpoint answers with in the polling loop: the host's
\* address (bare, with a trailing newline, with surrounding text), an edge
\* address of the static list, an edge address only a live list knows, a
\* resolver address, a private address, a page that is no address, and a body
\* with no token at all.
EchoBodies ==
  { S_HOST_A, S_HOST_A_NL, S_HOST_B_EXTRA, S_EDGE, S_NEW_EDGE, S_RESOLVER_1,
    S_PRIVATE, S_HTML, S_BLANK }

\* What requests.get(url, timeout=10) and raise_for_status() can produce.
EchoResponses ==
  [status : {"ok"}, text : EchoBodies]
    \cup [status : {"ConnectionError", "HTTPError"}, text : {S_EMPTY}]

\* text.strip().split() of lines 151-153, for each body.
TokensOf == [text \in EchoBodies \cup {S_EMPTY} |-> SplitWhitespace(Strip(text))]

\* ------------------------------------------------------------------------
\* Block ranges: _load_cloudflare_ipv4_networks
\* ------------------------------------------------------------------------

C_173_245_48_0_20 == <<"1", "7", "3", ".", "2", "4", "5", ".", "4", "8", ".", "0", "/", "2", "0">>
C_45_60_0_0_16    == <<"4", "5", ".", "6", "0", ".", "0", ".", "0", "/", "1", "6">>
C_HOST_BITS       == <<"1", "0", ".", "0", ".", "0", ".", "1", "/", "8">>
C_BAD_PREFIX      == <<"1", "7", "3", ".", "2", "4", "5", ".", "4", "8", ".", "0", "/", "3", "3">>
C_NONSENSE        == <<"n", "o", "n", "s", "e", "n", "s", "e">>

\* The static list of lines 66-82.
StaticFallbackCidrs ==
  << C_173_245_48_0_20,
     <<"1", "0", "3", ".", "2", "1", ".", "2", "4", "4", ".", "0", "/", "2", "2">>,
     <<"1", "0", "3", ".", "2", "2", ".", "2", "0", "0", ".", "0", "/", "2", "2">>,
     <<"1", "0", "3", ".", "3", "1", ".", "4", ".", "0", "/", "2", "2">>,
     <<"1", "4", "1", ".", "1", "0", "1", ".", "6", "4", ".", "0", "/", "1", "8">>,
     <<"1", "0", "8", ".", "1", "6", "2", ".", "1", "9", "2", ".", "0", "/", "1", "8">>,
     <<"1", "9", "0", ".", "9", "3", ".", "2", "4", "0", ".", "0", "/", "2", "0">>,
     <<"1", "8", "8", ".", "1", "1", "4", ".", "9", "6", ".", "0", "/", "2", "0">>,
     <<"1", "9", "7", ".", "2", "3", "4", ".", "2", "4", "0", ".", "0", "/", "2", "2">>,
     <<"1", "9", "8", ".", "4", "1", ".", "1", "2", "8", ".", "0", "/", "1", "7">>,
     <<"1", "6", "2", ".", "1", "5", "8", ".", "0", ".", "0", "/", "1", "5">>,
     <<"1", "0", "4", ".", "1", "6", ".", "0", ".", "0", "/", "1", "3">>,
     <<"1", "0", "4", ".", "2", "4", ".", "0", ".", "0", "/", "1", "4">>,
     <<"1", "7", "2", ".", "6", "4", ".", "0", ".", "0", "/", "1", "3">>,
     <<"1", "3", "1", ".", "0", ".", "7", "2", ".", "0", "/", "2", "2">> >>

\* extra_blocked_cidrs, line 94.
extra_blocked_cidrs ==
  << <<"1", ".", "1", ".", "1", ".", "0", "/", "2", "4">>,
     <<"1", ".", "0", ".", "0", ".", "0", "/", "2", "4">> >>

\* What GET /client/v4/ips can produce: a transport error, a non-2xx status, a
\* body that is no JSON, or a JSON object whose "result" is an object (with an
\* ipv4_cidrs list, possibly empty or partly malformed), is absent, or is null.
IpsResponses ==
  [status : {"ConnectionError", "HTTPError", "JSONDecodeError"},
   result : {"absent"}, ipv4_cidrs : {<<>>}]
    \cup [status : {"ok"}, result : {"absent", "null"}, ipv4_cidrs : {<<>>}]
    \cup [status : {"ok"}, result : {"object"},
          ipv4_cidrs : { <<>>,
                         <<C_173_245_48_0_20, C_45_60_0_0_16>>,
                         <<C_NONSENSE, C_45_60_0_0_16, C_HOST_BITS>>,
                         <<C_NONSENSE, C_BAD_PREFIX>> }]

\* Lines 46-58: whether the try block raises (any exception is caught).
LiveFetchRaises(ips) == ips.status # "ok" \/ ips.result = "null"

\* Lines 44-82: the CIDR strings after the try/except.
CidrsAfterFetch(ips) ==
  IF LiveFetchRaises(ips) THEN StaticFallbackCidrs
  ELSE IF ips.result = "absent" THEN <<>>
  ELSE ips.ipv4_cidrs

\* Lines 85-90 and 95-99: the networks of the strings that parse, in order.
RECURSIVE ParseCidrs(_)
ParseCidrs(cidrs) ==
  IF Len(cidrs) = 0 THEN <<>>
  ELSE LET network == IPv4Network(Head(cidrs))
       IN  (IF network = NoNetwork THEN <<>> ELSE <<network>>)
             \o ParseCidrs(Tail(cidrs))

\* The load, were it to leave out the loop of lines 95-99.
LoadedNetworksWithoutExtras(ips) == ParseCidrs(CidrsAfterFetch(ips))

\* Lines 84-101: the list the load assigns to the module-level cache.
LoadedNetworks(ips) ==
  ParseCidrs(CidrsAfterFetch(ips)) \o ParseCidrs(extra_blocked_cidrs)

\* LoadedNetworks, for each answer of the live fetch.
LoadedNetworksOf == [ips \in IpsResponses |-> LoadedNetworks(ips)]

\* The kind of an answer of the live fetch, by what lines 46-90 make of it: the
\* try block raised, it left no CIDR string (ipv4_cidrs missing or empty), it
\* left strings none of which parses, or it left at least one range.
IpsClass(ips) ==
  IF LiveFetchRaises(ips) THEN "failed"
  ELSE IF CidrsAfterFetch(ips) = <<>> THEN "empty"
  ELSE IF ParseCidrs(CidrsAfterFetch(ips)) = <<>> THEN "malformed"
  ELSE "ok"

\* IpsClass, for each answer of the live fetch.
IpsClassOf == [ips \in IpsResponses |-> IpsClass(ips)]

\* The cache test, were it never to find the cache loaded.
CacheHitNever(cache) == FALSE

\* Lines 41-42: a non-empty cache is returned as it is, with no request.
CacheHit(cache) == cache # <<>>

\* _load_cloudflare_ipv4_networks(): the list it returns (and leaves cached).
load_cloudflare_ipv4_networks(cache, ips) ==
  IF CacheHit(cache) THEN cache ELSE LoadedNetworksOf[ips]

\* ------------------------------------------------------------------------
\* Validation: _is_public_non_cloudflare_ipv4
\* ------------------------------------------------------------------------

\* Lines 110-117: the candidate parses and is global, so line 119 is reached
\* and the block ranges are asked for.
ReachesBlockCheck(ip_str) ==
  LET ip == IPv4Address(ip_str)
  IN  ip # NoAddress /\ is_global(ip)

\* Lines 119-123 over the list the loader returned.
InSomeNetwork(ip, networks) ==
  \E i \in 1..Len(networks) : InNetwork(ip, networks[i])

\* The predicate without its loop over the block ranges (lines 119-121).
is_public_ipv4_only(ip_str, networks) ==
  LET ip == IPv4Address(ip_str)
  IN  IF ip = NoAddress THEN FALSE
      ELSE IF ~is_global(ip) THEN FALSE
      ELSE TRUE

\* The predicate without its is_global test (lines 116-117).
is_non_cloudflare_ipv4_only(ip_str, networks) ==
  LET ip == IPv4Address(ip_str)
  IN  IF ip = NoAddress THEN FALSE
      ELSE IF InSomeNetwork(ip, networks) THEN FALSE
      ELSE TRUE

\* _is_public_non_cloudflare_ipv4(ip_str), given the list the loader returns.
is_public_non_cloudflare_ipv4(ip_str, networks) ==
  LET ip == IPv4Address(ip_str)
  IN  IF ip = NoAddress THEN FALSE
      ELSE IF ~is_global(ip) THEN FALSE
      ELSE IF InSomeNetwork(ip, networks) THEN FALSE
      ELSE TRUE

\* ------------------------------------------------------------------------
\* Requests, responses, exceptions
\* ------------------------------------------------------------------------

\* The ordered endpoint list of get_public_ip, lines 137-142.
endpoints ==
  << "https://api.ipify.org", "https://ifconfig.me",
     "https://icanhazip.com", "https://checkmyip.app/" >>

IPS_URL     == "https://api.cloudflare.com/client/v4/ips"
RECORDS_URL == "https://api.cloudflare.com/client/v4/zones/ZONE/dns_records?type=A&name=NAME"
RECORD_URL  == "https://api.cloudflare.com/client/v4/zones/ZONE/dns_records/"

\* One network request: the method, the URL (for a record, the identifier that
\* ends it), the timeout argument ("None" when the call passes none), the JSON
\* body (a sequence holding the body, empty when there is none), and the kind
\* of answer the environment gave.
Request(method, url, id, timeout, json, answer) ==
  [method |-> method, url |-> url, id |-> id, timeout |-> timeout,
   json |-> json, answer |-> answer]

\* requests.get(url, timeout=10), line 149.
EchoRequest(i, answer) == Request("GET", endpoints[i], "", "10", <<>>, answer)

\* requests.get(".../ips", timeout=5), lines 47-49.
IpsRequest(answer) == Request("GET", IPS_URL, "", "5", <<>>, answer)

\* requests.get(url, headers=headers), lines 190 and 231.
LookupRequest(answer) == Request("GET", RECORDS_URL, "", "None", <<>>, answer)

\* dns_data of update_dns, lines 238-244.
dns_data(ip_address) ==
  [type |-> "A", name |-> "NAME", content |-> ip_address, ttl |-> 120,
   proxied |-> FALSE]

\* requests.put(update_url, headers=headers, json=dns_data), lines 246-250.
UpdateRequest(id, ip_address, answer) ==
  Request("PUT", RECORD_URL, id, "None", <<dns_data(ip_address)>>, answer)

\* An exception: its type, its message, the provider payload the message
\* quotes, and the type of its __cause__.
Exc(type, message, detail, cause) ==
  [type |-> type, message |-> message, detail |-> detail, cause |-> cause]

NoException == Exc("None", "", "", "None")

\* The dictionary update_dns returns; NoResult stands for "not assigned".
Outcome(status, message, detail) ==
  [status |-> status, message |-> message, detail |-> detail]

NoResult == Outcome("None", "", "")

\* The provider's answers to a record listing while the record's value is c:
\* a transport error, a body that is no JSON, a success envelope listing no
\* record, the record, or the record and a second one of the same name, and an
\* error envelope (authentication rejected, or an API error such as a rate limit).
LookupResponses(c) ==
  [status : {"ConnectionError", "JSONDecodeError"}, success : {FALSE},
   result : {<<>>}, errors : {""}]
    \cup [status : {"ok"}, success : {TRUE},
          result : { <<>>,
                     <<[id |-> "rec1", content |-> c]>>,
                     <<[id |-> "rec1", content |-> c],
                       [id |-> "rec2", content |-> S_PRIVATE]>> },
          errors : {""}]
    \cup [status : {"ok"}, success : {FALSE}, result : {<<>>},
          errors : {"Authentication error", "Rate limited"}]

\* The kind of a listing answer: no envelope at all (the exception's type), the
\* record, no record, authentication rejected, or another API error.
LookupClass(resp) ==
  IF resp.status # "ok" THEN resp.status
  ELSE IF resp.success
  THEN IF Len(resp.result) = 0 THEN "no_record" ELSE "record"
  ELSE IF resp.errors = "Authentication error" THEN "auth_rejected"
  ELSE "api_error"

\* The kind of an update answer.
UpdateClass(resp) ==
  IF resp.status # "ok" THEN resp.status
  ELSE IF resp.success THEN "updated"
  ELSE IF resp.errors = "Authentication error" THEN "auth_rejected"
  ELSE "api_error"

\* The provider's answers to a record update.
UpdateResponses ==
  [status : {"ConnectionError", "JSONDecodeError"}, success : {FALSE},
   result : {<<>>}, errors : {""}]
    \cup [status : {"ok"}, success : {TRUE}, result : {<<>>}, errors : {""}]
    \cup [status : {"ok"}, success : {FALSE}, result : {<<>>},
          errors : {"Authentication error", "Rate limited", "Record does not exist"}]

\* ------------------------------------------------------------------------
\* get_public_ip: one endpoint of the loop, lines 146-167
\* ------------------------------------------------------------------------

\* What one pass of the loop body does with the endpoint's response: it raises
\* (the exception is caught and remembered), rejects the candidate, or accepts
\* it.  The block ranges are loaded when validation asks for them; ips is what
\* the live fetch would answer.
EndpointOutcome(resp, cache, ips) ==
  IF resp.status # "ok"
  THEN [kind |-> "raised", exc |-> resp.status, candidate |-> <<>>,
        fetched |-> FALSE, live |-> "", networks |-> cache]
  ELSE LET tokens == TokensOf[resp.text]
       IN  IF Len(tokens) = 0
           THEN [kind |-> "raised", exc |-> "IndexError", candidate |-> <<>>,
                 fetched |-> FALSE, live |-> "", networks |-> cache]
           ELSE LET candidate_ip == tokens[1]
                    asks     == ReachesBlockCheck(candidate_ip)
                    networks == IF asks
                                THEN load_cloudflare_ipv4_networks(cache, ips)
                                ELSE cache
                    fetched  == asks /\ ~CacheHit(cache)
                IN  [kind      |-> IF is_public_non_cloudflare_ipv4(candidate_ip, networks)
                                   THEN "accepted" ELSE "rejected",
                     exc       |-> "None",
                     candidate |-> candidate_ip,
                     fetched   |-> fetched,
                     live      |-> IF ~fetched THEN "" ELSE IpsClassOf[ips],
                     networks  |-> networks]

\* Every outcome of one pass: the endpoint answers anything it can, and so
\* does the live fetch of the block ranges when the pass makes it.
EndpointOutcomes(cache) ==
  { EndpointOutcome(resp, cache, ips) :
      resp \in EchoResponses,
      ips \in IF CacheHit(cache) THEN {CHOOSE r \in IpsResponses : TRUE}
              ELSE IpsResponses }

\* EndpointOutcomes, for the empty cache and for each list a load can leave.
EndpointOutcomesOf ==
  [cache \in {<<>>} \cup {LoadedNetworksOf[ips] : ips \in IpsResponses}
     |-> EndpointOutcomes(cache)]

\* last_error, were the rejection branch (lines 155-162) to clear it.
LastErrorClearedOnReject(last, o) == IF o.kind = "raised" THEN o.exc ELSE "None"

\* Lines 165-167 and 162: last_error after one pass of the loop body.
LastErrorAfter(last, o) == IF o.kind = "raised" THEN o.exc ELSE last

\* The loop, were it to stop one endpoint early.
LoopExhaustedEarly(i) == i >= Len(endpoints)

\* Line 146: the loop has no endpoint left.
LoopExhausted(i) == i > Len(endpoints)

\* The loop, were it to step over an endpoint.
NextUrlIndexSkipping(i) == i + 2

\* Line 146: the loop moves to the next endpoint of the list.
NextUrlIndex(i) == i + 1

\* main, were it to swallow the resolver's exception and go on.
MainAfterGetPublicIpSwallowing(raised) == "get_existing_dns_ip"

\* main, lines 135-136 and 172-174: where main goes when get_public_ip is
\* over: to the record lookup with the address it returned, or, when it
\* raised, past the rest of the pass to the sleep.
MainAfterGetPublicIp(raised) ==
  IF raised # NoException THEN "sleep" ELSE "get_existing_dns_ip"

\* Lines 169-172: the error raised when the loop ends without a return.
ResolutionFailed(last) ==
  Exc("RuntimeError", "Unable to determine a valid public IP address", "", last)

\* ------------------------------------------------------------------------
\* get_existing_dns_ip and update_dns
\* ------------------------------------------------------------------------

\* get_existing_dns_ip, were its last exception not to quote the provider's
\* errors.
get_existing_dns_ip_unquoted(resp) ==
  IF resp.status # "ok"
  THEN [raised |-> Exc(resp.status, "", "", "None"), value |-> <<>>]
  ELSE IF resp.success
  THEN IF Len(resp.result) = 0
       THEN [raised |-> Exc("Exception",
                            "DNS lookup succeeded but no records were returned",
                            "", "None"),
             value |-> <<>>]
       ELSE [raised |-> NoException, value |-> resp.result[1].content]
  ELSE [raised |-> Exc("Exception", "Failed to fetch existing DNS record IP.",
                       "", "None"),
        value |-> <<>>]

\* get_existing_dns_ip(), lines 190-210: the exception it raises (NoException
\* when it returns) and the value it returns.
get_existing_dns_ip(resp) ==
  IF resp.status # "ok"
  THEN [raised |-> Exc(resp.status, "", "", "None"), value |-> <<>>]
  ELSE IF resp.success
  THEN IF Len(resp.result) = 0
       THEN [raised |-> Exc("Exception",
                            "DNS lookup succeeded but no records were returned",
                            "", "None"),
             value |-> <<>>]
       ELSE [raised |-> NoException, value |-> resp.result[1].content]
  ELSE [raised |-> Exc("Exception", "Failed to fetch existing DNS record IP.",
                       resp.errors, "None"),
        value |-> <<>>]

\* update_dns, were it to take the identifier of the last listed record.
update_dns_lookup_last_record(resp) ==
  IF resp.status # "ok"
  THEN [raised |-> Exc(resp.status, "", "", "None"), returned |-> NoResult,
        record_id |-> ""]
  ELSE IF resp.success
  THEN IF Len(resp.result) = 0
       THEN [raised |-> Exc("IndexError", "list index out of range", "", "None"),
             returned |-> NoResult, record_id |-> ""]
       ELSE [raised |-> NoException, returned |-> NoResult,
             record_id |-> resp.result[Len(resp.result)].id]
  ELSE [raised |-> NoException,
        returned |-> Outcome("failure", "Failed to fetch existing DNS record ID.",
                             resp.errors),
        record_id |-> ""]

\* update_dns, lines 231-235 and 263-270: the record lookup.  It raises,
\* returns a failure outcome, or goes on to the update with a record identifier.
update_dns_lookup(resp) ==
  IF resp.status # "ok"
  THEN [raised |-> Exc(resp.status, "", "", "None"), returned |-> NoResult,
        record_id |-> ""]
  ELSE IF resp.success
  THEN IF Len(resp.result) = 0
       THEN [raised |-> Exc("IndexError", "list index out of range", "", "None"),
             returned |-> NoResult, record_id |-> ""]
       ELSE [raised |-> NoException, returned |-> NoResult,
             record_id |-> resp.result[1].id]
  ELSE [raised |-> NoException,
        returned |-> Outcome("failure", "Failed to fetch existing DNS record ID.",
                             resp.errors),
        record_id |-> ""]

\* update_dns, were it to raise on an error envelope instead of returning.
update_dns_put_raising(resp) ==
  IF resp.status # "ok"
  THEN [raised |-> Exc(resp.status, "", "", "None"), returned |-> NoResult]
  ELSE IF resp.success
  THEN [raised |-> NoException,
        returned |-> Outcome("success", "DNS updated successfully", "")]
  ELSE [raised |-> Exc("Exception", "Failed to update DNS.", resp.errors, "None"),
        returned |-> NoResult]

\* update_dns, lines 250-262: the answer to the update request.
update_dns_put(resp) ==
  IF resp.status # "ok"
  THEN [raised |-> Exc(resp.status, "", "", "None"), returned |-> NoResult]
  ELSE IF resp.success
  THEN [raised |-> NoException,
        returned |-> Outcome("success", "DNS updated successfully", "")]
  ELSE [raised |-> NoException,
        returned |-> Outcome("failure", "Failed to update DNS.", resp.errors)]

\* main, lines 144-169: what the loop logs for the value update_dns returned.
LoggedFor(r) ==
  IF r = NoResult THEN "bad_result"
  ELSE IF r.status = "success" THEN "success"
  ELSE "failure"

\* main, were it to call update_dns whatever the comparison says.
NeedsUpdateAlways(pub, existing) == TRUE

\* main, were it never to call update_dns.
NeedsUpdateNever(pub, existing) == FALSE

\* main, line 139: the comparison that decides whether update_dns is called.
NeedsUpdate(pub, existing) == pub # existing

\* ------------------------------------------------------------------------
\* State
\* ------------------------------------------------------------------------

\* The live-fetch counter stops counting here.
MaxFetches == 2

VARIABLES
  pc,                        \* where main is: "main", "get_public_ip",
                             \* "get_existing_dns_ip", "update_dns",
                             \* "update_dns_put", "sleep"
  AUTO_UPDATE,               \* the configuration value of line 23
  cloudflare_ipv4_networks,  \* the module-level cache of line 29
  ips_fetches,               \* live fetches of the block ranges by this process
  url_index,                 \* get_public_ip: the endpoint the loop is at
  last_error,                \* get_public_ip: last_error
  public_ip,                 \* main: public_ip (<<>> before it is assigned)
  existing_ip,               \* main: existing_ip
  result,                    \* main: result
  record_id,                 \* update_dns: record_id
  error,                     \* the exception main caught in this cycle
  logged,                    \* what main logged as the cycle's outcome
  calls,                     \* the network requests of this cycle, in order
  last_attempt,              \* the latest pass of get_public_ip's loop
  last_raised,               \* the exception of the latest pass that raised
  record_content,            \* the provider's value of the record
  v_pc,                      \* the validation harness: "off", "idle", "returned"
  v_ip_str,                  \* the harness's argument to the predicate
  v_verdict                  \* what the predicate returned to the harness

\* The harness calls _is_public_non_cloudflare_ipv4 directly, one string
\* after another, in a process of its own; the polling loop leaves it off.
vvars == << v_pc, v_ip_str, v_verdict >>

vars ==
  << pc, AUTO_UPDATE, cloudflare_ipv4_networks, ips_fetches, url_index,
     last_error, public_ip, existing_ip, result, record_id, error, logged,
     calls, last_attempt, last_raised, record_content, vvars >>

NoAttempt == [url_index |-> 0, kind |-> "None", candidate |-> <<>>]

\* The state of a freshly started process (module import, lines 29 and 52).
ProcessStart ==
  /\ pc = "main"
  /\ cloudflare_ipv4_networks = <<>>
  /\ ips_fetches = 0
  /\ url_index = 1
  /\ last_error = "None"
  /\ public_ip = <<>>
  /\ existing_ip = <<>>
  /\ result = NoResult
  /\ record_id = ""
  /\ error = NoException
  /\ logged = ""
  /\ calls = <<>>
  /\ last_attempt = NoAttempt
  /\ last_raised = "None"

Init ==
  /\ ProcessStart
  /\ AUTO_UPDATE \in BOOLEAN
  /\ record_content \in {S_HOST_A, S_HOST_B}
  /\ v_pc = "off"
  /\ v_ip_str = <<>>
  /\ v_verdict = FALSE

\* ------------------------------------------------------------------------
\* Actions
\* ------------------------------------------------------------------------

Min(a, b) == IF a < b THEN a ELSE b

\* main, lines 127-135: the top of the loop body.  The auto-update check is
\* off, not due, finds nothing new, or fails (its exceptions are caught in
\* lines 100-102 and 119-120); main then calls get_public_ip.
MainTop ==
  /\ pc = "main"
  /\ pc' = "get_public_ip"
  /\ url_index' = 1
  /\ last_error' = "None"
  /\ UNCHANGED << AUTO_UPDATE, cloudflare_ipv4_networks, ips_fetches, public_ip,
                  existing_ip, result, record_id, error, logged, calls,
                  last_attempt, last_raised, record_content >>
  /\ UNCHANGED vvars

\* main, lines 128-133 with lines 105-118: a newer version is found and pulled,
\* and os.execv replaces the process: every module-level value starts again.
AutoUpdateRestart ==
  /\ pc = "main"
  /\ AUTO_UPDATE
  /\ pc' = "main"
  /\ cloudflare_ipv4_networks' = <<>>
  /\ ips_fetches' = 0
  /\ url_index' = 1
  /\ last_error' = "None"
  /\ public_ip' = <<>>
  /\ existing_ip' = <<>>
  /\ result' = NoResult
  /\ record_id' = ""
  /\ error' = NoException
  /\ logged' = ""
  /\ calls' = <<>>
  /\ last_attempt' = NoAttempt
  /\ last_raised' = "None"
  /\ UNCHANGED << AUTO_UPDATE, record_content >>
  /\ UNCHANGED vvars

\* get_public_ip, lines 146-167: one pass of the loop, for endpoints[url_index].
TryEndpoint ==
  /\ pc = "get_public_ip"
  /\ ~LoopExhausted(url_index)
  /\ \E o \in EndpointOutcomesOf[cloudflare_ipv4_networks] :
           /\ calls' = calls
                  \o <<EchoRequest(url_index, IF o.kind = "accepted"
                                              THEN "accepted" ELSE "failed")>>
                  \o (IF o.fetched THEN <<IpsRequest(o.live)>> ELSE <<>>)
           /\ cloudflare_ipv4_networks' = o.networks
           /\ ips_fetches' = IF o.fetched
                             THEN Min(ips_fetches + 1, MaxFetches)
                             ELSE ips_fetches
           /\ last_attempt' = [url_index |-> url_index, kind |-> o.kind,
                               candidate |-> o.candidate]
           /\ last_raised' = IF o.kind = "raised" THEN o.exc ELSE last_raised
           /\ IF o.kind = "accepted"
              THEN /\ public_ip' = o.candidate
                   /\ pc' = MainAfterGetPublicIp(NoException)
                   /\ UNCHANGED << url_index, last_error >>
              ELSE /\ url_index' = NextUrlIndex(url_index)
                   /\ last_error' = LastErrorAfter(last_error, o)
                   /\ UNCHANGED << public_ip, pc >>
  /\ UNCHANGED << AUTO_UPDATE, existing_ip, result, record_id, error, logged,
                  record_content >>
  /\ UNCHANGED vvars

\* get_public_ip, lines 169-172, caught by main at lines 172-173.
RaiseResolutionFailed ==
  /\ pc = "get_public_ip"
  /\ LoopExhausted(url_index)
  /\ error' = ResolutionFailed(last_error)
  /\ logged' = "exception"
  /\ pc' = MainAfterGetPublicIp(ResolutionFailed(last_error))
  /\ UNCHANGED << AUTO_UPDATE, cloudflare_ipv4_networks, ips_fetches, url_index,
                  last_error, public_ip, existing_ip, result, record_id, calls,
                  last_attempt, last_raised, record_content >>
  /\ UNCHANGED vvars

\* main, were it to go on to update_dns when the record lookup raised.
GetExistingDnsIpThenUpdate ==
  /\ pc = "get_existing_dns_ip"
  /\ \E resp \in LookupResponses(record_content) :
       LET o == get_existing_dns_ip(resp)
       IN  /\ calls' = calls \o <<LookupRequest(LookupClass(resp))>>
           /\ IF o.raised # NoException
              THEN /\ error' = o.raised
                   /\ logged' = "exception"
                   /\ pc' = "update_dns"
                   /\ UNCHANGED existing_ip
              ELSE /\ existing_ip' = o.value
                   /\ error' = error
                   /\ IF NeedsUpdate(public_ip, o.value)
                      THEN pc' = "update_dns" /\ logged' = logged
                      ELSE pc' = "sleep" /\ logged' = "match"
  /\ UNCHANGED << AUTO_UPDATE, cloudflare_ipv4_networks, ips_fetches, url_index,
                  last_error, public_ip, result, record_id, last_attempt,
                  last_raised, record_content >>
  /\ UNCHANGED vvars

\* main, lines 136-139 and 170-173: the record lookup and the comparison.
GetExistingDnsIp ==
  /\ pc = "get_existing_dns_ip"
  /\ \E resp \in LookupResponses(record_content) :
       LET o == get_existing_dns_ip(resp)
       IN  /\ calls' = calls \o <<LookupRequest(LookupClass(resp))>>
           /\ IF o.raised # NoException
              THEN /\ error' = o.raised
                   /\ logged' = "exception"
                   /\ pc' = "sleep"
                   /\ UNCHANGED existing_ip
              ELSE /\ existing_ip' = o.value
                   /\ error' = error
                   /\ IF NeedsUpdate(public_ip, o.value)
                      THEN pc' = "update_dns" /\ logged' = logged
                      ELSE pc' = "sleep" /\ logged' = "match"
  /\ UNCHANGED << AUTO_UPDATE, cloudflare_ipv4_networks, ips_fetches, url_index,
                  last_error, public_ip, result, record_id, last_attempt,
                  last_raised, record_content >>
  /\ UNCHANGED vvars

\* main, line 143, and update_dns, lines 226-235 and 263-270: update_dns is
\* entered and looks the record up for its identifier.
UpdateDnsFetchId ==
  /\ pc = "update_dns"
  /\ \E resp \in LookupResponses(record_content) :
       LET o == update_dns_lookup(resp)
       IN  /\ calls' = calls \o <<LookupRequest(LookupClass(resp))>>
           /\ IF o.raised # NoException
              THEN /\ error' = o.raised
                   /\ logged' = "exception"
                   /\ pc' = "sleep"
                   /\ UNCHANGED << result, record_id >>
              ELSE IF o.returned # NoResult
              THEN /\ result' = o.returned
                   /\ logged' = LoggedFor(o.returned)
                   /\ pc' = "sleep"
                   /\ UNCHANGED << error, record_id >>
              ELSE /\ record_id' = o.record_id
                   /\ pc' = "update_dns_put"
                   /\ UNCHANGED << error, logged, result >>
  /\ UNCHANGED << AUTO_UPDATE, cloudflare_ipv4_networks, ips_fetches, url_index,
                  last_error, public_ip, existing_ip, last_attempt, last_raised,
                  record_content >>
  /\ UNCHANGED vvars

\* update_dns, lines 237-262, and main, lines 144-169: the update request, its
\* answer, and what main logs.  The provider changes the record only when it
\* answers success.
UpdateDnsPutRecord ==
  /\ pc = "update_dns_put"
  /\ \E resp \in UpdateResponses :
       LET o == update_dns_put(resp)
       IN  /\ IF o.raised # NoException
              THEN /\ error' = o.raised
                   /\ logged' = "exception"
                   /\ UNCHANGED result
              ELSE /\ result' = o.returned
                   /\ logged' = LoggedFor(o.returned)
                   /\ UNCHANGED error
           /\ record_content' = IF resp.status = "ok" /\ resp.success
                                THEN public_ip ELSE record_content
           /\ calls' = calls
                  \o <<UpdateRequest(record_id, public_ip, UpdateClass(resp))>>
  /\ pc' = "sleep"
  /\ record_id' = ""
  /\ UNCHANGED << AUTO_UPDATE, cloudflare_ipv4_networks, ips_fetches, url_index,
                  last_error, public_ip, existing_ip, last_attempt, last_raised >>
  /\ UNCHANGED vvars

\* main, were an exception caught at line 172 to end the loop.
SleepUnlessFailed ==
  /\ pc = "sleep"
  /\ error = NoException
  /\ pc' = "main"
  /\ calls' = <<>>
  /\ error' = NoException
  /\ logged' = ""
  /\ last_attempt' = NoAttempt
  /\ existing_ip' = <<>>
  /\ result' = NoResult
  /\ url_index' = 1
  /\ last_error' = "None"
  /\ last_raised' = "None"
  /\ UNCHANGED << AUTO_UPDATE, cloudflare_ipv4_networks, ips_fetches,
                  public_ip, record_id, record_content >>
  /\ UNCHANGED vvars

\* main, line 174: time.sleep(CHECK_INTERVAL), then the next pass of the loop.
\* public_ip keeps its value into the next pass, as the local of main does;
\* existing_ip and result, and the locals of the finished calls, are dead here
\* (the pass assigns them before it reads them) and are cleared with the
\* cycle's log.
Sleep ==
  /\ pc = "sleep"
  /\ pc' = "main"
  /\ calls' = <<>>
  /\ error' = NoException
  /\ logged' = ""
  /\ last_attempt' = NoAttempt
  /\ existing_ip' = <<>>
  /\ result' = NoResult
  /\ url_index' = 1
  /\ last_error' = "None"
  /\ last_raised' = "None"
  /\ UNCHANGED << AUTO_UPDATE, cloudflare_ipv4_networks, ips_fetches,
                  public_ip, record_id, record_content >>
  /\ UNCHANGED vvars

Next ==
  \/ MainTop
  \/ AutoUpdateRestart
  \/ TryEndpoint
  \/ RaiseResolutionFailed
  \/ GetExistingDnsIp
  \/ UpdateDnsFetchId
  \/ UpdateDnsPutRecord
  \/ Sleep

Spec == Init /\ [][Next]_vars

\* time.sleep(CHECK_INTERVAL) returns: the sleep of line 174 is finite.
FairSpec == Spec /\ WF_vars(Sleep)

\* ------------------------------------------------------------------------
\* The loop in a settled environment
\* ------------------------------------------------------------------------

\* The host's public address, once it has stopped changing.
HostAddress == S_HOST_B

\* The loop is at the top of a cycle, after any cycles of an unsettled
\* environment: the cache is empty or holds any list a load can leave,
\* public_ip is unassigned or holds an address an earlier cycle resolved, and
\* the record holds any address written before.
InitSettled ==
  /\ pc = "main"
  /\ AUTO_UPDATE \in BOOLEAN
  /\ cloudflare_ipv4_networks
       \in {<<>>} \cup {LoadedNetworksOf[ips] : ips \in IpsResponses}
  /\ ips_fetches = IF cloudflare_ipv4_networks = <<>> THEN 0 ELSE 1
  /\ url_index = 1
  /\ last_error = "None"
  /\ public_ip \in {<<>>, S_HOST_A, S_HOST_B}
  /\ existing_ip = <<>>
  /\ result = NoResult
  /\ record_id = ""
  /\ error = NoException
  /\ logged = ""
  /\ calls = <<>>
  /\ last_attempt = NoAttempt
  /\ last_raised = "None"
  /\ record_content \in {S_HOST_A, S_HOST_B, S_NEW_EDGE}
  /\ v_pc = "off"
  /\ v_ip_str = <<>>
  /\ v_verdict = FALSE

\* One pass of get_public_ip's loop while the endpoints are honest: a pass
\* may still fail, but an accepted candidate is the host's address, and the
\* last endpoint of the list returns it.
TryEndpointSettled ==
  /\ TryEndpoint
  /\ last_attempt'.kind = "accepted" => public_ip' = HostAddress
  /\ url_index = Len(endpoints) => last_attempt'.kind = "accepted"

\* The record lookup of main while the provider answers it with the record.
GetExistingDnsIpSettled ==
  /\ GetExistingDnsIp
  /\ error' = NoException

\* The record lookup of update_dns while the provider answers it with the
\* record.
UpdateDnsFetchIdSettled ==
  /\ UpdateDnsFetchId
  /\ pc' = "update_dns_put"

\* The update request, accepted by the provider.
UpdateAccepted ==
  /\ UpdateDnsPutRecord
  /\ record_content' = public_ip

NextSettled ==
  \/ MainTop
  \/ AutoUpdateRestart
  \/ TryEndpointSettled
  \/ GetExistingDnsIpSettled
  \/ UpdateDnsFetchIdSettled
  \/ UpdateDnsPutRecord
  \/ Sleep

\* A step of the loop itself: every step but the restart of the process.
LoopStep ==
  \/ MainTop
  \/ TryEndpointSettled
  \/ GetExistingDnsIpSettled
  \/ UpdateDnsFetchIdSettled
  \/ UpdateDnsPutRecord
  \/ Sleep

\* The loop keeps running (every call returns, the sleep ends), and the
\* provider, asked again and again, comes to accept the update.
SpecSettled ==
  /\ InitSettled
  /\ [][NextSettled]_vars
  /\ WF_vars(LoopStep)
  /\ SF_vars(UpdateAccepted)

\* ------------------------------------------------------------------------
\* The validation harness
\* ------------------------------------------------------------------------

\* _is_public_non_cloudflare_ipv4(ip_str) is called with any candidate string;
\* the block ranges are loaded by the first call that asks for them, from
\* whatever the live fetch answers, and stay cached for the calls after it.
ValidateCall ==
  /\ v_pc = "idle"
  /\ \E ip_str \in CandidateStrings :
       \E ips \in IF CacheHit(cloudflare_ipv4_networks)
                  THEN {CHOOSE r \in IpsResponses : TRUE} ELSE IpsResponses :
         LET networks == IF ReachesBlockCheck(ip_str)
                         THEN load_cloudflare_ipv4_networks(
                                cloudflare_ipv4_networks, ips)
                         ELSE cloudflare_ipv4_networks
         IN  /\ v_ip_str' = ip_str
             /\ v_verdict' = is_public_non_cloudflare_ipv4(ip_str, networks)
             /\ cloudflare_ipv4_networks' = networks
  /\ v_pc' = "returned"
  /\ UNCHANGED << pc, AUTO_UPDATE, ips_fetches, url_index, last_error,
                  public_ip, existing_ip, result, record_id, error, logged,
                  calls, last_attempt, last_raised, record_content >>

\* The harness takes the verdict and is ready for the next string.
ValidateReturn ==
  /\ v_pc = "returned"
  /\ v_pc' = "idle"
  /\ UNCHANGED << pc, AUTO_UPDATE, cloudflare_ipv4_networks, ips_fetches,
                  url_index, last_error, public_ip, existing_ip, result,
                  record_id, error, logged, calls, last_attempt, last_raised,
                  record_content, v_ip_str, v_verdict >>

InitValidate ==
  /\ ProcessStart
  /\ AUTO_UPDATE = FALSE
  /\ record_content = S_HOST_A
  /\ v_pc = "idle"
  /\ v_ip_str = <<>>
  /\ v_verdict = FALSE

NextValidate == ValidateCall \/ ValidateReturn

SpecValidate == InitValidate /\ [][NextValidate]_vars


\* ------------------------------------------------------------------------
\* What the cycle's log shows
\* ------------------------------------------------------------------------

Range(f) == {f[i] : i \in DOMAIN f}

IsEchoCall(c)   == c.url \in Range(endpoints)
IsLookupCall(c) == c.url = RECORDS_URL
IsUpdateCall(c) == c.url = RECORD_URL

\* The requests of this cycle to the echo endpoints, to the record listing,
\* and to the record itself, each in the order they were made.
EchoCalls   == SelectSeq(calls, IsEchoCall)
LookupCalls == SelectSeq(calls, IsLookupCall)
UpdateCalls == SelectSeq(calls, IsUpdateCall)

IsIpsCall(c) == c.url = IPS_URL

\* The requests of this cycle for the live list of block ranges.
IpsCalls == SelectSeq(calls, IsIpsCall)

\* The three conditions of a public address, from the library's operations
\* alone: the string parses, the address is global, no network holds it.
Acceptable(ip_str, networks) ==
  LET ip == IPv4Address(ip_str)
  IN  /\ ip # NoAddress
      /\ is_global(ip)
      /\ \A i \in 1..Len(networks) : ~InNetwork(ip, networks[i])

\* The block ranges came from the live fetch: they hold the range that only
\* the live list names.
LoadedFromLive ==
  \E i \in 1..Len(cloudflare_ipv4_networks) :
    cloudflare_ipv4_networks[i] = IPv4Network(C_45_60_0_0_16)

\* The block ranges are the static fallback: they hold its last range.
LoadedFromFallback ==
  \E i \in 1..Len(cloudflare_ipv4_networks) :
    cloudflare_ipv4_networks[i]
      = IPv4Network(StaticFallbackCidrs[Len(StaticFallbackCidrs)])

\* ------------------------------------------------------------------------
\* Claims
\* ------------------------------------------------------------------------

\* C1: every value get_public_ip returns parses as an IPv4 address, is
\* globally routable and lies in no range of the loaded block-range set (which
\* is loaded by then), whatever the endpoints and the range fetch answered.
C1_ReturnedAddressIsAcceptable ==
  last_attempt.kind = "accepted" =>
    /\ public_ip = last_attempt.candidate
    /\ cloudflare_ipv4_networks # <<>>
    /\ Acceptable(public_ip, cloudflare_ipv4_networks)

\* C1 witness: an address is returned while the ranges are the live list's;
\* it is one the live list does not name.
C1_Witness ==
  /\ last_attempt.kind = "accepted"
  /\ public_ip = S_HOST_A
  /\ LoadedFromLive

\* C2: the endpoints are contacted in list order, each at most once per call;
\* every pass before the last one failed; a pass that raised or rejected its
\* candidate moves the loop to the next endpoint; a rejected candidate is one
\* that is not acceptable; the accepted candidate is the call's result and no
\* endpoint is contacted after it.
C2_EndpointsInOrderFirstSuccessWins ==
  LET echo == EchoCalls
      n    == Len(echo)
  IN  /\ n <= Len(endpoints)
      /\ \A k \in 1..n : echo[k].url = endpoints[k]
      /\ \A k \in 1..(n - 1) : echo[k].answer = "failed"
      /\ pc = "get_public_ip" => n = url_index - 1
      /\ last_attempt.kind # "None" =>
           /\ n >= 1
           /\ last_attempt.url_index = n
           /\ (last_attempt.kind = "accepted") = (echo[n].answer = "accepted")
      /\ last_attempt.kind = "accepted" =>
           /\ pc # "get_public_ip"
           /\ public_ip = last_attempt.candidate
           /\ Acceptable(last_attempt.candidate, cloudflare_ipv4_networks)
      /\ last_attempt.kind = "rejected" =>
           ~Acceptable(last_attempt.candidate, cloudflare_ipv4_networks)
      /\ (last_attempt.kind \in {"raised", "rejected"} /\ pc = "get_public_ip") =>
           url_index = last_attempt.url_index + 1

\* C2 witness: the first endpoint's candidate was rejected and the second
\* endpoint's candidate was returned.
C2_Witness ==
  /\ Len(EchoCalls) = 2
  /\ EchoCalls[1].answer = "failed"
  /\ last_attempt = [url_index |-> 2, kind |-> "accepted", candidate |-> S_HOST_A]
  /\ public_ip = S_HOST_A
  /\ pc = "get_existing_dns_ip"

\* C3: get_public_ip raises its RuntimeError exactly when every endpoint of
\* the list was tried and every pass failed (raised or rejected its candidate).
C3_FailsExactlyWhenAllEndpointsFail ==
  LET echo      == EchoCalls
      allFailed == /\ Len(echo) = Len(endpoints)
                   /\ \A k \in 1..Len(echo) : echo[k].answer = "failed"
  IN  /\ error.type = "RuntimeError" =>
           /\ allFailed
           /\ last_attempt.kind \in {"raised", "rejected"}
           /\ last_attempt.url_index = Len(endpoints)
      /\ (allFailed /\ pc # "get_public_ip") => error.type = "RuntimeError"
      /\ (pc = "get_public_ip" /\ ~allFailed) => error.type # "RuntimeError"

\* C3 witness: a mixed failure: some pass raised on a non-2xx status and the
\* last pass rejected its candidate.
C3_Witness ==
  /\ error.type = "RuntimeError"
  /\ last_raised = "HTTPError"
  /\ last_attempt.kind = "rejected"

\* C4 (as claimed): the error carries the last error met, be it an exception
\* or a rejection by validation.
C4_CarriesLastTransportOrValidationError ==
  error.type = "RuntimeError" =>
    error.cause = (IF last_attempt.kind = "rejected" THEN "Rejected"
                   ELSE last_raised)

\* C4 (amended): the error's cause is the exception of the last pass that
\* raised (a transport error, a non-2xx status, a body with no token), and
\* there is no cause when no pass raised; a rejection by validation leaves no
\* trace in it.
C4_CarriesLastRaisedException ==
  /\ pc = "get_public_ip" => last_error = last_raised
  /\ error.type = "RuntimeError" => error.cause = last_raised

\* C4 witness: the first pass raised, the last one rejected its candidate, and
\* the error carries the exception.
C4_Witness ==
  /\ error.type = "RuntimeError"
  /\ error.cause = "ConnectionError"
  /\ last_attempt.kind = "rejected"

\* C5 (as claimed): in a cycle whose lookup returned the record's value, no
\* update request is made when the resolved address equals it, and exactly one
\* is made, with content the resolved address, ttl 120 and proxied false, when
\* it differs.
C5_ExactlyOneUpdateWhenDiffer ==
  (pc = "sleep" /\ existing_ip # <<>>) =>
    IF public_ip = existing_ip
    THEN UpdateCalls = <<>>
    ELSE /\ Len(UpdateCalls) = 1
         /\ UpdateCalls[1].method = "PUT"
         /\ Len(UpdateCalls[1].json) = 1
         /\ UpdateCalls[1].json[1].content = public_ip
         /\ UpdateCalls[1].json[1].ttl = 120
         /\ UpdateCalls[1].json[1].proxied = FALSE

\* C5 (amended): no update request is made unless the cycle's lookup returned
\* a value that differs from the resolved address, and never more than one;
\* when the cycle is over and the two are equal, update_dns was not called;
\* when they differ, update_dns was called once, and it made the one update
\* request (a PUT to the first listed record, with content the resolved
\* address, ttl 120 and proxied false) exactly when its own lookup of the
\* record answered with a record.
C5_OneUpdateWhenRecordFound ==
  /\ Len(UpdateCalls) <= 1
  /\ UpdateCalls # <<>> => (existing_ip # <<>> /\ public_ip # existing_ip)
  /\ \A k \in 1..Len(UpdateCalls) :
       /\ UpdateCalls[k].method = "PUT"
       /\ UpdateCalls[k].id = "rec1"
       /\ Len(UpdateCalls[k].json) = 1
       /\ UpdateCalls[k].json[1].content = public_ip
       /\ UpdateCalls[k].json[1].ttl = 120
       /\ UpdateCalls[k].json[1].proxied = FALSE
       /\ UpdateCalls[k].json[1].type = "A"
  /\ (pc = "sleep" /\ existing_ip # <<>>) =>
       IF public_ip = existing_ip
       THEN /\ Len(LookupCalls) = 1
            /\ UpdateCalls = <<>>
            /\ logged = "match"
       ELSE /\ Len(LookupCalls) = 2
            /\ (Len(UpdateCalls) = 1) = (LookupCalls[2].answer = "record")

\* C5 witness: the resolved address differed from the record's value and the
\* cycle ended with the one update request, which the provider accepted.
C5_Witness ==
  /\ pc = "sleep"
  /\ existing_ip = S_HOST_A
  /\ public_ip = S_HOST_B
  /\ Len(UpdateCalls) = 1
  /\ UpdateCalls[1].answer = "updated"
  /\ record_content = S_HOST_B

\* C6: once get_public_ip has raised its RuntimeError, main is at its sleep
\* and the cycle has made no request to the provider's record endpoints: every
\* request of the cycle went to an echo endpoint or to the range list; main
\* logged the exception and holds no result.
C6_ResolutionFailureSkipsProvider ==
  error.type = "RuntimeError" =>
    /\ pc = "sleep"
    /\ LookupCalls = <<>>
    /\ UpdateCalls = <<>>
    /\ \A k \in 1..Len(calls) :
         /\ calls[k].method = "GET"
         /\ calls[k].url \in Range(endpoints) \cup {IPS_URL}
    /\ logged = "exception"
    /\ result = NoResult
    /\ existing_ip = <<>>

\* C6 witness: the resolver failed in a cycle that follows one in which it
\* returned an address, which main still holds.
C6_Witness ==
  /\ error.type = "RuntimeError"
  /\ pc = "sleep"
  /\ public_ip = S_HOST_B
  /\ record_content = S_HOST_A

\* C7: when the provider answers the update request with an error envelope,
\* update_dns returns a failure outcome quoting the provider's errors, main
\* caught no exception and logged the failure, and main is at its sleep, from
\* which the next cycle starts.
C7_RejectedUpdateIsReportedFailure ==
  (UpdateCalls # <<>> /\ UpdateCalls[1].answer \in {"auth_rejected", "api_error"}) =>
    /\ result.status = "failure"
    /\ result.message = "Failed to update DNS."
    /\ result.detail # ""
    /\ error = NoException
    /\ logged = "failure"
    /\ pc = "sleep"
    /\ ENABLED Sleep

\* C7 witness: the provider rejected the update for a rate limit and the
\* record still holds its old value.
C7_Witness ==
  /\ UpdateCalls # <<>>
  /\ UpdateCalls[1].answer = "api_error"
  /\ result = Outcome("failure", "Failed to update DNS.", "Rate limited")
  /\ record_content = S_HOST_A
  /\ public_ip = S_HOST_B

\* C8 (as claimed): when update_dns is over and the provider answered each of
\* its requests with an envelope, update_dns returned an outcome, success or
\* failure, and raised nothing.
C8_AlwaysStructuredOutcome ==
  ( /\ pc = "sleep"
    /\ Len(LookupCalls) = 2
    /\ LookupCalls[2].answer \in {"record", "no_record", "auth_rejected", "api_error"}
    /\ \A k \in 1..Len(UpdateCalls) :
         UpdateCalls[k].answer \in {"updated", "auth_rejected", "api_error"} )
  => /\ error = NoException
     /\ result.status \in {"success", "failure"}

\* What a caller can tell from the exception get_existing_dns_ip raised: its
\* type, its message, and the provider's errors the message quotes.
SurfacedClass(e) ==
  IF e.type # "Exception" THEN e.type
  ELSE IF e.message = "DNS lookup succeeded but no records were returned"
  THEN "no_record"
  ELSE IF e.detail = "Authentication error" THEN "auth_rejected"
  ELSE "api_error"

\* C9: get_existing_dns_ip returns a value exactly when the provider answered
\* success with at least one record, and the value is the first record's; on
\* every other answer it raises, the cycle ends there, and the exception tells
\* the answers apart (no record by its message, an authentication rejection
\* and another API error by the provider's errors it quotes).  The lookup is a
\* GET: no request of the cycle creates a record.
C9_LookupReturnsRecordOrRaisesDistinctly ==
  /\ \A k \in 1..Len(calls) : calls[k].method \in {"GET", "PUT"}
  /\ \A k \in 1..Len(LookupCalls) :
       LookupCalls[k].method = "GET" /\ LookupCalls[k].json = <<>>
  /\ LookupCalls = <<>> => existing_ip = <<>>
  /\ LookupCalls # <<>> =>
       LET answer == LookupCalls[1].answer
       IN  /\ (existing_ip # <<>>) = (answer = "record")
           /\ (answer = "record" /\ UpdateCalls = <<>>) =>
                existing_ip = record_content
           /\ answer # "record" =>
                /\ pc = "sleep"
                /\ Len(LookupCalls) = 1
                /\ UpdateCalls = <<>>
                /\ error # NoException
                /\ SurfacedClass(error) = answer
                /\ result = NoResult

\* C9 witness: the provider rejected the lookup's credentials and the cycle
\* ended with the exception that quotes the rejection.
C9_Witness ==
  /\ Len(LookupCalls) = 1
  /\ LookupCalls[1].answer = "auth_rejected"
  /\ error = Exc("Exception", "Failed to fetch existing DNS record IP.",
                 "Authentication error", "None")
  /\ pc = "sleep"

\* The special-use ranges named one by one: private, loopback, link-local,
\* reserved.
SpecialUseNetworks ==
  { [addr |-> <<10, 0, 0, 0>>,    prefix |-> 8],
    [addr |-> <<172, 16, 0, 0>>,  prefix |-> 12],
    [addr |-> <<192, 168, 0, 0>>, prefix |-> 16],
    [addr |-> <<127, 0, 0, 0>>,   prefix |-> 8],
    [addr |-> <<169, 254, 0, 0>>, prefix |-> 16],
    [addr |-> <<240, 0, 0, 0>>,   prefix |-> 4] }

\* Strings that are no dotted quad of decimal octets.
UnparsableStrings ==
  { S_HOST_A_NL, S_HOST_B_EXTRA, S_HTML, S_THREE, S_BIG_OCTET, S_LEAD_ZERO,
    S_SLASH, S_EMPTY, S_BLANK }

\* C10: the predicate answers false for a string that does not parse, for an
\* address in a private, loopback, link-local or reserved range, for an
\* address in one of the loaded block ranges, and for 1.1.1.1 and 1.0.0.1
\* whichever list was loaded; it answers true for a global address in none of
\* the loaded ranges.
C10_VerdictOfValidation ==
  v_pc = "returned" =>
    LET ip == IPv4Address(v_ip_str)
    IN  /\ v_ip_str \in UnparsableStrings => (ip = NoAddress /\ ~v_verdict)
        /\ ip = NoAddress => ~v_verdict
        /\ (ip # NoAddress /\ \E net \in SpecialUseNetworks : InNetwork(ip, net))
             => ~v_verdict
        /\ (ip # NoAddress /\ InSomeNetwork(ip, cloudflare_ipv4_networks))
             => ~v_verdict
        /\ v_ip_str \in {S_RESOLVER_1, S_RESOLVER_2} =>
             /\ ~v_verdict
             /\ InSomeNetwork(ip, cloudflare_ipv4_networks)
        /\ (ip # NoAddress /\ is_global(ip)
              /\ ~InSomeNetwork(ip, cloudflare_ipv4_networks)) => v_verdict
        /\ v_verdict => cloudflare_ipv4_networks # <<>>

\* C10 witness: with the static fallback loaded, an address of its first range
\* was refused.
C10_Witness ==
  /\ v_pc = "returned"
  /\ v_ip_str = S_EDGE
  /\ ~v_verdict
  /\ LoadedFromFallback

\* The networks of the static list of lines 66-82, and of the two resolver
\* ranges of line 94, written out.
StaticFallbackNetworks ==
  << [addr |-> <<173, 245, 48, 0>>,  prefix |-> 20],
     [addr |-> <<103, 21, 244, 0>>,  prefix |-> 22],
     [addr |-> <<103, 22, 200, 0>>,  prefix |-> 22],
     [addr |-> <<103, 31, 4, 0>>,    prefix |-> 22],
     [addr |-> <<141, 101, 64, 0>>,  prefix |-> 18],
     [addr |-> <<108, 162, 192, 0>>, prefix |-> 18],
     [addr |-> <<190, 93, 240, 0>>,  prefix |-> 20],
     [addr |-> <<188, 114, 96, 0>>,  prefix |-> 20],
     [addr |-> <<197, 234, 240, 0>>, prefix |-> 22],
     [addr |-> <<198, 41, 128, 0>>,  prefix |-> 17],
     [addr |-> <<162, 158, 0, 0>>,   prefix |-> 15],
     [addr |-> <<104, 16, 0, 0>>,    prefix |-> 13],
     [addr |-> <<104, 24, 0, 0>>,    prefix |-> 14],
     [addr |-> <<172, 64, 0, 0>>,    prefix |-> 13],
     [addr |-> <<131, 0, 72, 0>>,    prefix |-> 22] >>

ResolverNetworks ==
  << [addr |-> <<1, 1, 1, 0>>, prefix |-> 24],
     [addr |-> <<1, 0, 0, 0>>, prefix |-> 24] >>

\* C11 (as claimed): whenever the live fetch of this cycle failed or gave no
\* CIDR string, the loaded set is the static list (with the resolver ranges).
C11_FallsBackOnFailureOrEmptyResult ==
  \A k \in 1..Len(IpsCalls) :
    IpsCalls[k].answer \in {"failed", "empty"} =>
      cloudflare_ipv4_networks = StaticFallbackNetworks \o ResolverNetworks

\* C12: once loaded, the set ends with 1.1.1.0/24 and 1.0.0.0/24, whatever
\* the live fetch answered and whatever entries were skipped; when the live
\* fetch of this cycle failed, the set is the fifteen static ranges followed by
\* these two.
C12_ResolverRangesAlwaysLoaded ==
  /\ cloudflare_ipv4_networks # <<>> =>
       /\ Len(cloudflare_ipv4_networks) >= 2
       /\ SubSeq(cloudflare_ipv4_networks, Len(cloudflare_ipv4_networks) - 1,
                 Len(cloudflare_ipv4_networks)) = ResolverNetworks
       /\ \A i \in 1..Len(cloudflare_ipv4_networks) :
            cloudflare_ipv4_networks[i] # NoNetwork
  /\ IpsCalls # <<>> => cloudflare_ipv4_networks # <<>>
  /\ \A k \in 1..Len(IpsCalls) :
       IpsCalls[k].answer = "failed" =>
         /\ cloudflare_ipv4_networks = StaticFallbackNetworks \o ResolverNetworks
         /\ Len(cloudflare_ipv4_networks) = 17

\* C12 witness: the live list gave one range and two malformed entries, which
\* were skipped; the set is that range and the two resolver ranges.
C12_Witness ==
  /\ IpsCalls # <<>>
  /\ IpsCalls[1].answer = "ok"
  /\ cloudflare_ipv4_networks
       = <<[addr |-> <<45, 60, 0, 0>>, prefix |-> 16]>> \o ResolverNetworks

\* The cycle failed: main caught an exception, or update_dns returned a
\* failure outcome.
CycleFailed == error # NoException \/ result.status = "failure"

\* C13: a failed cycle is not the end of the loop: whichever call failed,
\* main has logged it and is at its sleep, the sleep can return, and the
\* failed cycle is followed by the top of the next one, for which nothing of
\* the failure is kept.
C13_NoFailureIsFatal ==
  /\ [](CycleFailed =>
          /\ pc = "sleep"
          /\ logged \in {"exception", "failure"}
          /\ ENABLED Sleep)
  /\ [][(CycleFailed /\ pc' # pc) =>
          (pc' = "main" /\ error' = NoException /\ result' = NoResult)]_vars
  /\ (CycleFailed ~> (pc = "main" /\ ~CycleFailed))

\* C13 witness: update_dns raised an exception that is none of its reported
\* failures, and main caught it.
C13_Witness ==
  /\ error.type = "IndexError"
  /\ logged = "exception"
  /\ pc = "sleep"
  /\ Len(LookupCalls) = 2

\* C14 (as claimed): every request of a cycle, to an echo endpoint, for the
\* range list, for the record listing or to the record, passes a timeout.
C14_EveryRequestHasTimeout ==
  \A k \in 1..Len(calls) : calls[k].timeout # "None"

\* C15 (as claimed): once loaded, the set holds a range besides the two
\* resolver ranges: one of the live list or of the static list.
C15_HoldsLiveOrStaticRange ==
  cloudflare_ipv4_networks # <<>> =>
    \E i \in 1..Len(cloudflare_ipv4_networks) :
      \A j \in 1..Len(ResolverNetworks) :
        cloudflare_ipv4_networks[i] # ResolverNetworks[j]

\* C16: a process fetches the live list at most once; it does so only while
\* the cache is empty, and leaves the cache loaded; from then on no step of the
\* process changes the cache or requests the list again.  Only the restart of
\* the process (a new process) starts with an empty cache.
C16_LoadedAtMostOncePerProcess ==
  /\ [](/\ ips_fetches <= 1
        /\ Len(IpsCalls) <= ips_fetches
        /\ (ips_fetches = 1) = (cloudflare_ipv4_networks # <<>>))
  /\ [][\/ AutoUpdateRestart
        \/ /\ cloudflare_ipv4_networks # <<>> =>
                /\ cloudflare_ipv4_networks' = cloudflare_ipv4_networks
                /\ ips_fetches' = ips_fetches
                /\ Len(IpsCalls') <= Len(IpsCalls)
           /\ ips_fetches' # ips_fetches =>
                /\ cloudflare_ipv4_networks = <<>>
                /\ cloudflare_ipv4_networks' # <<>>
                /\ ips_fetches' = ips_fetches + 1
                /\ Len(IpsCalls') = Len(IpsCalls) + 1]_vars

\* C16 witness: in a cycle after the one that loaded the cache from the static
\* fallback, a candidate was checked against it and rejected, with no request
\* for the list.
C16_Witness ==
  /\ ips_fetches = 1
  /\ IpsCalls = <<>>
  /\ LoadedFromFallback
  /\ last_attempt.kind = "rejected"
  /\ last_attempt.candidate = S_EDGE

\* C17: when get_existing_dns_ip raised (an error envelope, an empty record
\* list, a transport error, a body that is no JSON), the cycle is over: main
\* logged the exception and is at its sleep, update_dns was not called (it
\* made no lookup of its own) and no update request was sent.
C17_FailedLookupSkipsUpdate ==
  (LookupCalls # <<>> /\ LookupCalls[1].answer # "record") =>
    /\ pc = "sleep"
    /\ logged = "exception"
    /\ error.type \in {"Exception", "ConnectionError", "JSONDecodeError"}
    /\ calls[Len(calls)] = LookupCalls[1]
    /\ Len(LookupCalls) = 1
    /\ UpdateCalls = <<>>
    /\ result = NoResult
    /\ existing_ip = <<>>

\* C17 witness: the provider listed no record, although the resolved address
\* differs from the record's last known value.
C17_Witness ==
  /\ Len(LookupCalls) = 1
  /\ LookupCalls[1].answer = "no_record"
  /\ error.message = "DNS lookup succeeded but no records were returned"
  /\ public_ip = S_HOST_B
  /\ record_content = S_HOST_A
  /\ pc = "sleep"

\* C18: main goes on to the provider only with an address get_public_ip
\* returned in this cycle; the content of every update request is that
\* address, which is acceptable under the loaded block ranges; and the record's
\* value changes only to such an address.
C18_UpdateCarriesThisCyclesAddress ==
  /\ [](/\ pc \in {"get_existing_dns_ip", "update_dns", "update_dns_put"} =>
             /\ last_attempt.kind = "accepted"
             /\ public_ip = last_attempt.candidate
        /\ \A k \in 1..Len(UpdateCalls) :
             /\ last_attempt.kind = "accepted"
             /\ UpdateCalls[k].json[1].content = last_attempt.candidate
             /\ UpdateCalls[k].json[1].content = public_ip
             /\ EchoCalls # <<>>
             /\ EchoCalls[Len(EchoCalls)].answer = "accepted"
             /\ Acceptable(UpdateCalls[k].json[1].content, cloudflare_ipv4_networks))
  /\ [][record_content' # record_content =>
          /\ last_attempt.kind = "accepted"
          /\ record_content' = last_attempt.candidate
          /\ Acceptable(record_content', cloudflare_ipv4_networks)]_vars

\* C18 witness: the record holds the address an earlier cycle wrote, and this
\* cycle sends the address it resolved itself.
C18_Witness ==
  /\ existing_ip = S_NEW_EDGE
  /\ UpdateCalls # <<>>
  /\ UpdateCalls[1].json[1].content = S_HOST_A
  /\ last_attempt.candidate = S_HOST_A

\* C19: the update request follows, in the same call of update_dns, a lookup
\* that listed a record, and targets the first listed record; when that lookup
\* reports success false, update_dns returns a failure outcome and sends no
\* update request.
C19_UpdateFollowsOwnLookup ==
  /\ pc = "update_dns_put" =>
       /\ Len(LookupCalls) = 2
       /\ LookupCalls[2].answer = "record"
       /\ calls[Len(calls)] = LookupCalls[2]
       /\ record_id = "rec1"
       /\ UpdateCalls = <<>>
  /\ UpdateCalls # <<>> =>
       /\ Len(calls) >= 2
       /\ calls[Len(calls)] = UpdateCalls[1]
       /\ IsLookupCall(calls[Len(calls) - 1])
       /\ calls[Len(calls) - 1].answer = "record"
       /\ Len(LookupCalls) = 2
       /\ UpdateCalls[1].id = "rec1"
  /\ (Len(LookupCalls) = 2
        /\ LookupCalls[2].answer \in {"auth_rejected", "api_error"}) =>
       /\ UpdateCalls = <<>>
       /\ result.status = "failure"
       /\ result.message = "Failed to fetch existing DNS record ID."
       /\ result.detail # ""
       /\ error = NoException
       /\ logged = "failure"
       /\ pc = "sleep"

\* C19 witness: get_existing_dns_ip read the record, and the lookup inside
\* update_dns was then refused for its credentials.
C19_Witness ==
  /\ Len(LookupCalls) = 2
  /\ LookupCalls[1].answer = "record"
  /\ LookupCalls[2].answer = "auth_rejected"
  /\ result = Outcome("failure", "Failed to fetch existing DNS record ID.",
                      "Authentication error")
  /\ UpdateCalls = <<>>

\* The provider did not accept the update request of this cycle.
UpdateRejected ==
  UpdateCalls # <<>> /\ UpdateCalls[1].answer # "updated"

\* C20: in a settled environment the record's value comes to equal the
\* host's address and stays so; once it does, no cycle sends an update
\* request, and a cycle that reads the record finds the two in sync; an update
\* request the provider did not accept leaves the record as it was, and a later
\* cycle sends one that is accepted.
C20_ConvergesToHostAddress ==
  /\ <>[](record_content = HostAddress)
  /\ [][record_content = HostAddress =>
          /\ record_content' = HostAddress
          /\ Len(UpdateCalls') <= Len(UpdateCalls)
          /\ pc = "get_existing_dns_ip" =>
               (pc' = "sleep" /\ logged' = "match")]_vars
  /\ [][(Len(UpdateCalls') > Len(UpdateCalls) /\ UpdateRejected') =>
          record_content' = record_content]_vars
  /\ (UpdateRejected ~> (UpdateCalls # <<>> /\ UpdateCalls[1].answer = "updated"))

\* C20 witness: the record held an address an earlier cycle wrote, other than
\* the host's; this cycle's update request was accepted and the record is in
\* sync.
C20_Witness ==
  /\ record_content = HostAddress
  /\ existing_ip = S_NEW_EDGE
  /\ UpdateCalls # <<>>
  /\ UpdateCalls[1].answer = "updated"
  /\ pc = "sleep"

====
